---- MODULE Spec2Model ----
(***************************************************************************)
(* Token lifecycle of iikoserver: one TokenManager (token, version, lock,  *)
(* refresh event) behind one IikoServerApiClientManager facade, used by    *)
(* several asyncio tasks.  Every action is one run of a coroutine between  *)
(* two suspension points (an await that really yields to the event loop):  *)
(* waiting for the asyncio.Lock, waiting on the asyncio.Event, and the     *)
(* network round trips auth_get, logout_get and the business api_call.     *)
(***************************************************************************)
EXTENDS Integers, Sequences, FiniteSets, TLC

\* ------------------------------------------------------------------ bounds
NumTasks == 3
MaxAuth == 3
MaxExpire == 1
NumKeys == 2
NumProcs == 4
MaxObjects == 3
MaxLen == 2
MaxFilterLen == 2

Tasks == 1..NumTasks
Keys == 1..NumKeys
Procs == 1..NumProcs

\* Python's None, and the empty api_key dict {}.
None == 0

VARIABLES tm, fac, srv, task, started, last, cohort, reg, proc, calc

vars == <<tm, fac, srv, task, started, last, cohort, reg, proc, calc>>

\* ------------------------------------------------------------ exceptions
\* An exception is its class, its `status` attribute (None when it has none)
\* and, for the auth exception, the kind of the original error.
UnauthorizedException == [cls |-> "UnauthorizedException", status |-> 401, orig |-> "none"]
ApiException401 == [cls |-> "ApiException", status |-> 401, orig |-> "none"]
ApiException500 == [cls |-> "ApiException", status |-> 500, orig |-> "none"]
ValueError == [cls |-> "ValueError", status |-> None, orig |-> "none"]

\* asyncio.CancelledError: a BaseException, which `except Exception` does
\* not catch.
CancelledError == [cls |-> "CancelledError", status |-> None, orig |-> "none"]

IikoServerAuthException(original) ==
    [cls |-> "IikoServerAuthException", status |-> None, orig |-> original]

AuthErrors == {UnauthorizedException, ApiException401}
OtherErrors == {ApiException500, ValueError}
Errors == AuthErrors \cup OtherErrors

\* The operation's answer when it does not raise.
Ok == [cls |-> "ok", status |-> 200, orig |-> "none"]

\* refresh_token_if_401: isinstance(error, UnauthorizedException) or status == 401
is_401_any(error) == TRUE
is_401(error) == error.cls = "UnauthorizedException" \/ error.status = 401

\* execute_with_retry: except UnauthorizedException / getattr(exc, "status") == 401
retry_on_any(error) == TRUE
retry_on(error) == error.cls = "UnauthorizedException" \/ error.status = 401

\* ------------------------------------------------------------------- state
\* TokenManager.__init__
NewTokenManager ==
    [token |-> None, token_version |-> 0, api_key |-> None,
     locked |-> None, lock_waiters |-> <<>>,
     refresh_event |-> TRUE, event_waiters |-> {}]

NoExc == [cls |-> "none", status |-> None, orig |-> "none"]

NoRet == [kind |-> "none", val |-> "none", exc |-> NoExc]

\* A task (coroutine) and the locals of the call it is running.  hist is the
\* call's own record of what happened in it: "auth" (an auth_get request
\* sent), "call" (the business operation invoked), "answer" (what that
\* invocation answered: Ok or the exception), "refresh"
\* (refresh_token_if_401 entered), "auth_failed" (the auth_get request
\* failed), "logout" (a logout_get request sent), "logout_failed" (it
\* failed).  header is the api_key the request in
\* flight carries.  Of the call's first invocation of the operation:
\* had_token is whether the TokenManager held a token then and sent_version
\* the TokenManager's version then (both kept until the call re-invokes the
\* operation or completes).
IdleTask ==
    [pc |-> "idle", op |-> "none", version_before |-> 0,
     header |-> None, hist |-> <<>>,
     sent_version |-> 0, had_token |-> FALSE]

\* The call that completed in the step just taken, if one did: which method,
\* what it did, and what its caller got (a returned value or a raised
\* exception).
NoCall == [op |-> "none", hist |-> <<>>, ret |-> NoRet]

NoCohort == [members |-> {}, done |-> {}, auths |-> 0, auth_ok |-> FALSE, rets |-> {}]

\* ------------------------------------------------------------ registries
\* What a registry call has done: "visit" (close_all's loop reached the
\* TokenManager id, holding token), "logout" (logout_get sent for it),
\* "tm_cleared" (TokenManager._instances cleared), "close" (api_client.close
\* awaited on facade id), "cleared" (the facade registry cleared).
REv(name, id, token) == [ev |-> name, id |-> id, token |-> token]

\* A task using the registries and the locals of its one call: pos and size
\* are the dict iterator of the loop it is in (entries yielded, and the size
\* the dict had when the iterator was made), cur the object whose request
\* is in flight, nested whether TokenManager.close_all runs inside
\* IikoServerApiClientManager.close_all, snap the TokenManager ids
\* registered when TokenManager.close_all began.
IdleProc ==
    [pc |-> "idle", op |-> "none", pos |-> 0, size |-> 0, cur |-> None,
     nested |-> FALSE, snap |-> <<>>, hist |-> <<>>]

\* The registry call that completed in the step just taken, if one did.
NoRegCall ==
    [op |-> "none", by |-> None, ret |-> "none", id |-> None,
     snap |-> <<>>, hist |-> <<>>]

\* The two class-level dicts (insertion-ordered sequences of key/id
\* entries), every facade and TokenManager object created so far (an
\* object's id is its index), the number of sessions the server has issued,
\* and `got`: what get_instance calls returned since the registry they
\* asked was last cleared.
NewRegistries ==
    [instances |-> <<>>, tm_instances |-> <<>>,
     facades |-> <<>>, tms |-> <<>>,
     auths |-> 0, got |-> {}, started |-> 0, last |-> NoRegCall]

\* ---------------------------------------------------------- pure functions
\* Strings are sequences of characters; the alphabet has the separator that
\* key_id uses and one other character.
Alphabet == {"a", ":"}

\* Non-empty strings of at most MaxLen characters.
Strings == UNION {[1..n -> Alphabet] : n \in 1..MaxLen}

\* What the last call of a function without side effects was given and what
\* it produced.
NoCalc == [fn |-> "none"]

Init ==
    /\ calc = NoCalc
    /\ reg = NewRegistries
    /\ proc = [p \in Procs |-> IdleProc]
    /\ tm = NewTokenManager
    /\ fac = [token_manager |-> FALSE]
    /\ srv = [valid |-> {}, auth_calls |-> 0, expired |-> 0]
    /\ task = [t \in Tasks |-> IdleTask]
    /\ started = 0
    /\ last = NoCall
    /\ cohort = NoCohort

Ev(name) == [ev |-> name, exc |-> NoExc]

Answer(outcome) == [ev |-> "answer", exc |-> outcome]

\* Some exception that carries status 401: an UnauthorizedException or one
\* of another class.
Status401 == [cls |-> "Exception", status |-> 401, orig |-> "none"]

Count(seq, name) == Cardinality({i \in DOMAIN seq : seq[i].ev = name})

\* ------------------------------------------------- synchronous code pieces
\* A context is what one coroutine step reads and writes: the TokenManager,
\* the server, the facade and the running task's own locals.
Ctx(t) == [id |-> t, tm |-> tm, srv |-> srv, fac |-> fac, me |-> task[t], last |-> NoCall]

log(c, name) == [c EXCEPT !.me.hist = Append(@, Ev(name))]

\* The call returns v, or raises e, to its caller: its locals are gone, what
\* it did (hist) and what the caller gets (ret) are recorded in `last`.
Complete(c, r) ==
    [c EXCEPT !.me = [IdleTask EXCEPT !.pc = "done"],
              !.last = [op |-> c.me.op, hist |-> c.me.hist, ret |-> r]]

Return(c, v) == Complete(c, [kind |-> "return", val |-> v, exc |-> NoExc])

Raise(c, e) == Complete(c, [kind |-> "raise", val |-> "none", exc |-> e])

\* asyncio.Lock.acquire takes the lock without suspending only when it is
\* unlocked and nobody is queued; otherwise the caller queues (FIFO).
lock_is_free_always(c) == TRUE
lock_is_free(c) == c.tm.locked = None /\ c.tm.lock_waiters = <<>>

lock_take(c) == [c EXCEPT !.tm.locked = c.id]

lock_enqueue(c, pc) ==
    [c EXCEPT !.tm.lock_waiters = Append(@, c.id), !.me.pc = pc]

\* asyncio.Lock.release: the first queued waiter is woken and owns the lock.
lock_release_no_wake(c) == [c EXCEPT !.tm.locked = None]
lock_release(c) ==
    IF c.tm.lock_waiters = <<>>
    THEN [c EXCEPT !.tm.locked = None]
    ELSE [c EXCEPT !.tm.locked = Head(c.tm.lock_waiters),
                   !.tm.lock_waiters = Tail(c.tm.lock_waiters)]

\* asyncio.Event.set resolves the future of every waiter; a waiter returns
\* from wait() when it next runs, whatever the flag is by then.
event_set(c) == [c EXCEPT !.tm.refresh_event = TRUE, !.tm.event_waiters = {}]

event_clear(c) == [c EXCEPT !.tm.refresh_event = FALSE]

event_wait(c) ==
    [c EXCEPT !.tm.event_waiters = @ \cup {c.id}, !.me.pc = "refresh_wait"]

\* _fetch_token up to its await: the api_key is emptied, auth_get is sent.
fetch_token_send(c, pc) ==
    log([c EXCEPT !.tm.api_key = None, !.srv.auth_calls = @ + 1, !.me.pc = pc], "auth")

set_token_no_bind(c, token) == [c EXCEPT !.tm.token = token]
set_token(c, token) == [c EXCEPT !.tm.token = token, !.tm.api_key = token]

\* self._token_version += 1
bump_version_by_two(c) == [c EXCEPT !.tm.token_version = @ + 2]
bump_version_none(c) == c
bump_version(c) == [c EXCEPT !.tm.token_version = @ + 1]

\* The business operation: the request carries the api_key of this moment.
api_call(c) ==
    LET first == Count(c.me.hist, "call") = 0
    IN  log([c EXCEPT !.me.pc = "api_call", !.me.header = c.tm.api_key,
                      !.me.sent_version = IF first THEN c.tm.token_version ELSE 0,
                      !.me.had_token = first /\ c.tm.token # None], "call")

\* What runs when ensure_token returns: inside execute_with_retry the first
\* invocation of the operation, otherwise the caller gets None.
after_ensure_token(c) ==
    IF c.me.op = "execute_with_retry" THEN api_call(c) ELSE Return(c, "None")

\* What runs when refresh_token_if_401 returns v: execute_with_retry ignores
\* v and re-invokes the operation.
after_refresh(c, v) ==
    IF c.me.op = "execute_with_retry"
    THEN api_call([c EXCEPT !.me.version_before = 0])
    ELSE Return(c, v)

\* ensure_token, inside the lock.
ensure_token_locked_no_recheck(c) == fetch_token_send(event_clear(c), "ensure_fetch")
ensure_token_locked(c) ==
    IF c.tm.token # None
    THEN after_ensure_token(lock_release(c))
    ELSE fetch_token_send(event_clear(c), "ensure_fetch")

ensure_token(c) ==
    IF c.tm.token # None THEN after_ensure_token(c)
    ELSE IF lock_is_free(c) THEN ensure_token_locked(lock_take(c))
    ELSE lock_enqueue(c, "ensure_lock")

\* refresh_token_if_401, inside the lock.
refresh_locked(c) ==
    IF c.tm.token_version # c.me.version_before
    THEN after_refresh(lock_release(c), "True")
    ELSE fetch_token_send(event_clear(c), "refresh_fetch")

refresh_token_if_401(c, error) ==
    LET c0 == log(c, "refresh")
        c1 == [c0 EXCEPT !.me.version_before = c0.tm.token_version]
    IN  IF ~is_401(error) THEN after_refresh(c0, "False")
        ELSE IF ~c1.tm.refresh_event THEN event_wait(c1)
        ELSE IF lock_is_free(c1) THEN refresh_locked(lock_take(c1))
        ELSE lock_enqueue(c1, "refresh_lock")

\* refresh_token_if_401 after `await self._refresh_event.wait()`.
refresh_wait_return_fall_through(c) ==
    IF lock_is_free(c) THEN refresh_locked(lock_take(c))
    ELSE lock_enqueue(c, "refresh_lock")
refresh_wait_return(c) == after_refresh(c, "True")

\* _ensure_token_manager followed by the first api_call of execute_with_retry.
ensure_token_manager(c) ==
    IF ~c.fac.token_manager
    THEN ensure_token([c EXCEPT !.fac.token_manager = TRUE])
    ELSE api_call(c)

execute_with_retry(c) == ensure_token_manager(c)

\* The n-th auth_get answered returns session key n: a fresh value each time.
new_token(c) == c.srv.auth_calls

\* ensure_token after its auth_get: outcome "ok", "401" or "error".
ensure_fetch_return_proceed(c, outcome) ==
    IF outcome = "ok"
    THEN LET c1 == set_token([c EXCEPT !.srv.valid = @ \cup {new_token(c)}], new_token(c))
             c2 == bump_version(c1)
         IN  after_ensure_token(lock_release(event_set(c2)))
    ELSE after_ensure_token(log(lock_release(event_set(c)), "auth_failed"))
ensure_fetch_return_retry(c, outcome) ==
    IF outcome = "ok"
    THEN LET c1 == set_token([c EXCEPT !.srv.valid = @ \cup {new_token(c)}], new_token(c))
             c2 == bump_version(c1)
         IN  after_ensure_token(lock_release(event_set(c2)))
    ELSE IF Count(c.me.hist, "auth") < 2
    THEN fetch_token_send(log(c, "auth_failed"), "ensure_fetch")
    ELSE Raise(log(lock_release(event_set(c)), "auth_failed"),
               IikoServerAuthException(outcome))
ensure_fetch_return(c, outcome) ==
    IF outcome = "ok"
    THEN LET c1 == set_token([c EXCEPT !.srv.valid = @ \cup {new_token(c)}], new_token(c))
             c2 == bump_version(c1)
         IN  after_ensure_token(lock_release(event_set(c2)))
    ELSE Raise(log(lock_release(event_set(c)), "auth_failed"),
               IikoServerAuthException(outcome))

\* refresh_token_if_401 after its auth_get.
refresh_fetch_return_keep(c, outcome) ==
    IF outcome = "ok"
    THEN LET c1 == set_token([c EXCEPT !.srv.valid = @ \cup {new_token(c)}], new_token(c))
             c2 == bump_version(c1)
         IN  after_refresh(lock_release(event_set(c2)), "True")
    ELSE Raise(log(lock_release(event_set(c)), "auth_failed"),
               IikoServerAuthException(outcome))
refresh_fetch_return_swallow(c, outcome) ==
    IF outcome = "ok"
    THEN LET c1 == set_token([c EXCEPT !.srv.valid = @ \cup {new_token(c)}], new_token(c))
             c2 == bump_version(c1)
         IN  after_refresh(lock_release(event_set(c2)), "True")
    ELSE LET c1 == [c EXCEPT !.tm.token = None, !.tm.api_key = None]
         IN  after_refresh(log(lock_release(event_set(c1)), "auth_failed"), "False")
refresh_fetch_return(c, outcome) ==
    IF outcome = "ok"
    THEN LET c1 == set_token([c EXCEPT !.srv.valid = @ \cup {new_token(c)}], new_token(c))
             c2 == bump_version(c1)
         IN  after_refresh(lock_release(event_set(c2)), "True")
    ELSE LET c1 == [c EXCEPT !.tm.token = None, !.tm.api_key = None]
         IN  Raise(log(lock_release(event_set(c1)), "auth_failed"),
                   IikoServerAuthException(outcome))

\* execute_with_retry after an invocation of the operation answered `outcome`
\* (Ok or an exception).
request_done(c) == [c EXCEPT !.me.header = None]

api_call_return_loop(c, outcome) ==
    IF outcome.cls # "ok"
    THEN IF retry_on(outcome)
         THEN refresh_token_if_401(request_done(c), outcome)
         ELSE Raise(c, outcome)
    ELSE Return(c, IF Count(c.me.hist, "call") = 1 THEN "result1" ELSE "result2")
api_call_return_no_refresh(c, outcome) ==
    IF outcome.cls # "ok"
    THEN IF Count(c.me.hist, "call") = 1 /\ retry_on(outcome)
         THEN api_call(c)
         ELSE Raise(c, outcome)
    ELSE Return(c, IF Count(c.me.hist, "call") = 1 THEN "result1" ELSE "result2")
api_call_return_eager(c, outcome) ==
    IF outcome.cls # "ok"
    THEN IF Count(c.me.hist, "call") = 1 /\ retry_on(outcome)
         THEN refresh_token_if_401(request_done(c), outcome)
         ELSE Raise(c, outcome)
    ELSE IF Count(c.me.hist, "call") = 1 THEN api_call(c) ELSE Return(c, "result2")
api_call_return(c, outcome) ==
    IF outcome.cls # "ok"
    THEN IF Count(c.me.hist, "call") = 1 /\ retry_on(outcome)
         THEN refresh_token_if_401(request_done(c), outcome)
         ELSE Raise(c, outcome)
    ELSE Return(c, IF Count(c.me.hist, "call") = 1 THEN "result1" ELSE "result2")

\* logout up to its await, and after logout_get.
logout_unguarded(c) ==
    log([c EXCEPT !.me.pc = "logout_wait", !.me.header = c.tm.token], "logout")
logout(c) ==
    IF c.tm.token = None THEN Return(c, "None")
    ELSE log([c EXCEPT !.me.pc = "logout_wait", !.me.header = c.tm.token], "logout")

logout_return_propagate(c, outcome) ==
    IF outcome = "ok"
    THEN Return([c EXCEPT !.srv.valid = @ \ {c.me.header},
                          !.tm.token = None, !.tm.api_key = None], "None")
    ELSE Raise(log(c, "logout_failed"), ApiException500)
logout_return_keep_key(c, outcome) ==
    LET c1 == IF outcome = "ok" THEN [c EXCEPT !.srv.valid = @ \ {c.me.header}]
              ELSE log(c, "logout_failed")
    IN  Return([c1 EXCEPT !.tm.token = None], "None")
logout_return(c, outcome) ==
    LET c1 == IF outcome = "ok" THEN [c EXCEPT !.srv.valid = @ \ {c.me.header}]
              ELSE log(c, "logout_failed")
    IN  Return([c1 EXCEPT !.tm.token = None, !.tm.api_key = None], "None")

\* The task is cancelled while its auth_get is in flight: CancelledError is
\* raised at `await self._fetch_token()`; no except clause of _fetch_token,
\* ensure_token or refresh_token_if_401 catches it, the finally sets the
\* event, `async with` releases the lock, and it propagates to the caller.
cancel_fetch_no_set(c) == Raise(log(lock_release(c), "cancelled"), CancelledError)
cancel_fetch(c) ==
    Raise(log(lock_release(event_set(c)), "cancelled"), CancelledError)

\* --------------------------------------------------------- ghost: cohorts
\* A cohort is a set of refresh_token_if_401 invocations (with a 401 error)
\* that all started before any of them finished, the first of them on a
\* TokenManager at rest (event set, lock free).  It records how many
\* auth_get requests its members sent, whether the answer was a token, and
\* what the finished members returned.  A cohort all of whose members have
\* finished is kept for one state, then forgotten.
in_refresh(r) == r.pc \in {"refresh_wait", "refresh_lock", "refresh_fetch"}

at_rest == tm.refresh_event /\ tm.locked = None /\ tm.lock_waiters = <<>>

CohortKept == IF cohort.members = cohort.done THEN NoCohort ELSE cohort

CohortNext(t, c) ==
    LET before == task[t]
        after == c.me
        entered == /\ Count(after.hist, "refresh") > Count(before.hist, "refresh")
                   /\ in_refresh(after)
        co1 == IF ~entered THEN CohortKept
               ELSE IF CohortKept = NoCohort /\ at_rest
               THEN [NoCohort EXCEPT !.members = {t}]
               ELSE IF CohortKept # NoCohort /\ cohort.done = {}
               THEN [cohort EXCEPT !.members = @ \cup {t}]
               ELSE CohortKept
        member == t \in co1.members \ co1.done
        authed == member /\ Count(after.hist, "auth") > Count(before.hist, "auth")
        finished == member /\ ~in_refresh(after)
        raised == after.pc = "done" /\ c.last.ret.kind = "raise"
        co2 == IF authed THEN [co1 EXCEPT !.auths = @ + 1] ELSE co1
    IN  IF ~finished THEN co2
        ELSE [co2 EXCEPT !.done = @ \cup {t},
                         !.rets = @ \cup {IF raised THEN "raise" ELSE "True"},
                         !.auth_ok = @ \/ (before.pc = "refresh_fetch" /\ ~raised)]

\* ----------------------------------------------------------------- actions
\* One coroutine step of task t ending in context c.
Apply(t, c) ==
    /\ c.srv.auth_calls <= MaxAuth
    /\ tm' = c.tm
    /\ srv' = c.srv
    /\ fac' = c.fac
    /\ task' = [task EXCEPT ![t] = c.me]
    /\ last' = c.last
    /\ cohort' = CohortNext(t, c)
    /\ UNCHANGED <<reg, proc, calc>>

Begin(t, name) == [Ctx(t) EXCEPT !.me.op = name]

Call_execute_with_retry(t) ==
    /\ task[t].pc = "idle" /\ t = started + 1
    /\ started' = started + 1
    /\ Apply(t, execute_with_retry(Begin(t, "execute_with_retry")))

Call_ensure_token(t) ==
    /\ task[t].pc = "idle" /\ t = started + 1
    /\ started' = started + 1
    /\ Apply(t, ensure_token(Begin(t, "ensure_token")))

Call_refresh_token_if_401(t, error) ==
    /\ task[t].pc = "idle" /\ t = started + 1
    /\ started' = started + 1
    /\ Apply(t, refresh_token_if_401(Begin(t, "refresh_token_if_401"), error))

Call_logout(t) ==
    /\ task[t].pc = "idle" /\ t = started + 1
    /\ started' = started + 1
    /\ Apply(t, logout(Begin(t, "logout")))

\* The lock is handed to a queued ensure_token.
EnsureLockAcquired(t) ==
    /\ task[t].pc = "ensure_lock" /\ tm.locked = t
    /\ Apply(t, ensure_token_locked(Ctx(t)))
    /\ UNCHANGED started

\* The lock is handed to a queued refresh_token_if_401.
RefreshLockAcquired(t) ==
    /\ task[t].pc = "refresh_lock" /\ tm.locked = t
    /\ Apply(t, refresh_locked(Ctx(t)))
    /\ UNCHANGED started

\* A waiter on the refresh event runs again after set(): it returns True.
RefreshWaitReturn(t) ==
    /\ task[t].pc = "refresh_wait" /\ t \notin tm.event_waiters
    /\ Apply(t, refresh_wait_return(Ctx(t)))
    /\ UNCHANGED started

\* The authentication endpoint answers ensure_token's auth_get.
EnsureFetchReturn(t, outcome) ==
    /\ task[t].pc = "ensure_fetch"
    /\ Apply(t, ensure_fetch_return(Ctx(t), outcome))
    /\ UNCHANGED started

\* The authentication endpoint answers refresh_token_if_401's auth_get.
RefreshFetchReturn(t, outcome) ==
    /\ task[t].pc = "refresh_fetch"
    /\ Apply(t, refresh_fetch_return(Ctx(t), outcome))
    /\ UNCHANGED started

\* The server answers the business request: 401 unless the session key the
\* request carried is valid now.
ApiOutcomes(t, others) ==
    IF task[t].header \in srv.valid THEN {Ok} \cup others ELSE AuthErrors

\* The answer goes into the call's record; of a 401 answer to the first
\* invocation, the one a refresh may follow, only that it is one.
Answered(c, outcome) ==
    [c EXCEPT !.me.hist =
        Append(@, IF Count(c.me.hist, "call") = 1 /\ outcome \in AuthErrors
                  THEN Answer(Status401) ELSE Answer(outcome))]

ApiCallReturn(t, outcome) ==
    /\ task[t].pc = "api_call"
    /\ Apply(t, api_call_return(Answered(Ctx(t), outcome), outcome))
    /\ UNCHANGED started

\* The session-release endpoint answers ("ok") or the request fails.
LogoutReturn(t, outcome) ==
    /\ task[t].pc = "logout_wait"
    /\ Apply(t, logout_return(Ctx(t), outcome))
    /\ UNCHANGED started

\* The server expires the session of the current token.
Expire(k) ==
    /\ k = tm.token /\ k \in srv.valid /\ srv.expired < MaxExpire
    /\ srv' = [srv EXCEPT !.valid = @ \ {k}, !.expired = @ + 1]
    /\ last' = NoCall
    /\ cohort' = CohortKept
    /\ UNCHANGED <<tm, fac, task, started, reg, proc, calc>>

Next ==
    \/ \E t \in Tasks : Call_execute_with_retry(t)
    \/ \E t \in Tasks : Call_ensure_token(t)
    \/ \E t \in Tasks, e \in Errors : Call_refresh_token_if_401(t, e)
    \/ \E t \in Tasks : Call_logout(t)
    \/ \E t \in Tasks : EnsureLockAcquired(t)
    \/ \E t \in Tasks : RefreshLockAcquired(t)
    \/ \E t \in Tasks : RefreshWaitReturn(t)
    \/ \E t \in Tasks, o \in {"ok", "401", "error"} : EnsureFetchReturn(t, o)
    \/ \E t \in Tasks, o \in {"ok", "401", "error"} : RefreshFetchReturn(t, o)
    \/ \E t \in Tasks : \E o \in ApiOutcomes(t, OtherErrors) : ApiCallReturn(t, o)
    \/ \E t \in Tasks, o \in {"ok", "error"} : LogoutReturn(t, o)
    \/ \E k \in 1..MaxAuth : Expire(k)

Spec == Init /\ [][Next]_vars

\* Everyday token expiry: only execute_with_retry calls on the facade, an
\* authentication endpoint that accepts the credentials every time, a
\* business operation that succeeds whenever its session key is valid, and
\* a server that expires the current session once.
ExpireOnce(k) == srv.expired = 0 /\ Expire(k)

NextExpiry ==
    \/ \E t \in Tasks : Call_execute_with_retry(t)
    \/ \E t \in Tasks : RefreshWaitReturn(t)
    \/ \E t \in Tasks : EnsureFetchReturn(t, "ok")
    \/ \E t \in Tasks : RefreshFetchReturn(t, "ok")
    \/ \E t \in Tasks : \E o \in ApiOutcomes(t, {}) : ApiCallReturn(t, o)
    \/ \E k \in 1..MaxAuth : ExpireOnce(k)

SpecExpiry == Init /\ [][NextExpiry]_vars

\* Task.cancel() on a task suspended in a fetch.
Cancel(t) ==
    /\ task[t].pc \in {"ensure_fetch", "refresh_fetch"}
    /\ Apply(t, cancel_fetch(Ctx(t)))
    /\ UNCHANGED started

\* The calls that fetch a token, with callers that may be cancelled during
\* the fetch.
NextCancel ==
    \/ \E t \in Tasks : Call_execute_with_retry(t)
    \/ \E t \in Tasks : Call_ensure_token(t)
    \/ \E t \in Tasks, e \in AuthErrors : Call_refresh_token_if_401(t, e)
    \/ \E t \in Tasks : EnsureLockAcquired(t)
    \/ \E t \in Tasks : RefreshLockAcquired(t)
    \/ \E t \in Tasks : RefreshWaitReturn(t)
    \/ \E t \in Tasks, o \in {"ok", "error"} : EnsureFetchReturn(t, o)
    \/ \E t \in Tasks, o \in {"ok", "error"} : RefreshFetchReturn(t, o)
    \/ \E t \in Tasks : \E o \in ApiOutcomes(t, {}) : ApiCallReturn(t, o)
    \/ \E t \in Tasks : Cancel(t)

SpecCancel == Init /\ [][NextCancel]_vars

\* A TokenManager at rest without a token, after v sessions that ensure_token
\* fetched and logout released one after the other (version v, v auth_get
\* calls; a session whose logout_get failed is still valid on the server).
InitEnsure ==
    /\ \E v \in 0..(MaxAuth - 1) : \E live \in SUBSET (1..v) :
          /\ tm = [NewTokenManager EXCEPT !.token_version = v]
          /\ srv = [valid |-> live, auth_calls |-> v, expired |-> 0]
    /\ calc = NoCalc
    /\ reg = NewRegistries
    /\ proc = [p \in Procs |-> IdleProc]
    /\ fac = [token_manager |-> FALSE]
    /\ task = [t \in Tasks |-> IdleTask]
    /\ started = 0
    /\ last = NoCall
    /\ cohort = NoCohort

\* Callers that only call ensure_token.
NextEnsure ==
    \/ \E t \in Tasks : Call_ensure_token(t)
    \/ \E t \in Tasks : EnsureLockAcquired(t)
    \/ \E t \in Tasks, o \in {"ok", "401", "error"} : EnsureFetchReturn(t, o)

SpecEnsure == InitEnsure /\ [][NextEnsure]_vars

\* ------------------------------------------------ registries: code pieces
\* What one step of a registry call reads and writes.
RCtx(p) == [id |-> p, reg |-> [reg EXCEPT !.last = NoRegCall], proc |-> proc]

rlog(c, name, id, token) ==
    [c EXCEPT !.proc[c.id].hist = Append(@, REv(name, id, token))]

\* The call returns (ret "instance" with the object's id, or "None") or
\* raises (ret "RuntimeError") to its caller.
RComplete(c, ret, id) ==
    [c EXCEPT !.proc[c.id] = [IdleProc EXCEPT !.pc = "done"],
              !.reg.last = [op |-> c.proc[c.id].op, by |-> c.id, ret |-> ret, id |-> id,
                            snap |-> c.proc[c.id].snap,
                            hist |-> c.proc[c.id].hist]]

\* dict lookup: the id stored under key, None when the key is absent.
Lookup(entries, key) ==
    IF \E i \in DOMAIN entries : entries[i].key = key
    THEN entries[CHOOSE i \in DOMAIN entries : entries[i].key = key].id
    ELSE None

Ids(entries) == [i \in DOMAIN entries |-> entries[i].id]

Got(c, registry, key, id) ==
    [c EXCEPT !.reg.got = @ \cup {[registry |-> registry, key |-> key, id |-> id, by |-> c.id]}]

\* IikoServerApiClientManager.__init__
NewFacade(key) == [key |-> key, token_manager |-> None, closed |-> FALSE]

\* TokenManager.__init__
NewTm(key, api_client) ==
    [key |-> key, token |-> None, token_version |-> 0, api_client |-> api_client]

\* IikoServerApiClientManager.get_instance: under cls._lock, with no await
\* inside; the instance found or created is left in cur.
get_instance_always_create(c, key) ==
    [c EXCEPT !.reg.facades = Append(@, NewFacade(key)),
              !.reg.instances = Append(@, [key |-> key, id |-> Len(c.reg.facades) + 1]),
              !.proc[c.id].cur = Len(c.reg.facades) + 1]
get_instance(c, key) ==
    IF Lookup(c.reg.instances, key) # None
    THEN [c EXCEPT !.proc[c.id].cur = Lookup(c.reg.instances, key)]
    ELSE [c EXCEPT !.reg.facades = Append(@, NewFacade(key)),
                   !.reg.instances = Append(@, [key |-> key, id |-> Len(c.reg.facades) + 1]),
                   !.proc[c.id].cur = Len(c.reg.facades) + 1]

\* TokenManager.get_instance: under cls._global_lock, with no await inside.
tm_get_instance(c, key, api_client) ==
    IF Lookup(c.reg.tm_instances, key) # None
    THEN [c EXCEPT !.proc[c.id].cur = Lookup(c.reg.tm_instances, key)]
    ELSE [c EXCEPT !.reg.tms = Append(@, NewTm(key, api_client)),
                   !.reg.tm_instances = Append(@, [key |-> key, id |-> Len(c.reg.tms) + 1]),
                   !.proc[c.id].cur = Len(c.reg.tms) + 1]

\* An auth_get of TokenManager x is in flight.
Authing(c, x) == \E q \in Procs : c.proc[q].pc = "auth_wait" /\ c.proc[q].cur = x

\* The token part of a business call on TokenManager x: without a token a
\* fetch is sent (by ensure_token, or by the refresh after the 401), unless
\* one is in flight; with a token the call goes through.
tm_fetch_if_absent(c, x) ==
    IF c.reg.tms[x].token = None /\ ~Authing(c, x)
    THEN [c EXCEPT !.proc[c.id].pc = "auth_wait", !.proc[c.id].cur = x]
    ELSE RComplete(c, "None", x)

\* _ensure_token_manager of facade f, then the call's token part.
facade_ensure_token_manager(c, f) ==
    IF c.reg.facades[f].token_manager = None
    THEN LET c1 == tm_get_instance(c, c.reg.facades[f].key, f)
             x == c1.proc[c.id].cur
             c2 == Got([c1 EXCEPT !.reg.facades[f].token_manager = x],
                       "tm", c.reg.facades[f].key, x)
         IN  tm_fetch_if_absent(c2, x)
    ELSE tm_fetch_if_absent(c, c.reg.facades[f].token_manager)

\* The transport TokenManager x sends its requests over has been closed.
TransportClosed(c, x) ==
    /\ c.reg.tms[x].api_client # None
    /\ c.reg.facades[c.reg.tms[x].api_client].closed

\* The fetch is answered: a token (session key number auths + 1) or a
\* failure; over a closed transport it can only fail.
auth_return(c, outcome) ==
    LET x == c.proc[c.id].cur
    IN  IF outcome = "ok" /\ ~TransportClosed(c, x)
        THEN RComplete([c EXCEPT !.reg.tms[x].token = c.reg.auths + 1,
                                 !.reg.tms[x].token_version = @ + 1,
                                 !.reg.auths = @ + 1], "None", x)
        ELSE RComplete([c EXCEPT !.reg.tms[x].token = None], "None", x)

\* IikoServerApiClientManager.close_all after TokenManager.close_all: the
\* loop over cls._instances.values().  A dict iterator raises RuntimeError
\* when the dict's size is not the one it was made with.
facade_close_loop(c) ==
    LET me == c.proc[c.id]
        entries == c.reg.instances
    IN  IF Len(entries) # me.size THEN RComplete(c, "RuntimeError", None)
        ELSE IF me.pos = Len(entries)
        THEN RComplete(rlog([c EXCEPT !.reg.instances = <<>>,
                                      !.reg.got = {g \in @ : g.registry # "facade"}],
                            "cleared", None, None), "None", None)
        ELSE rlog([c EXCEPT !.proc[c.id].pos = @ + 1,
                            !.proc[c.id].pc = "close_wait",
                            !.proc[c.id].cur = entries[me.pos + 1].id],
                  "close", entries[me.pos + 1].id, None)

\* TokenManager.close_all after its loop: the registry is cleared; inside
\* IikoServerApiClientManager.close_all the facades' loop follows.
tm_close_end(c) ==
    LET c1 == rlog([c EXCEPT !.reg.tm_instances = <<>>,
                             !.reg.got = {g \in @ : g.registry # "tm"}],
                   "tm_cleared", None, None)
    IN  IF c1.proc[c.id].nested
        THEN facade_close_loop([c1 EXCEPT !.proc[c.id].pos = 0,
                                          !.proc[c.id].size = Len(c1.reg.instances)])
        ELSE RComplete(c1, "None", None)

\* TokenManager.close_all: the loop over cls._instances.values(), run up to
\* the next logout that has a request to send (logout returns at once on a
\* TokenManager without a token).
tm_close_loop(c) ==
    LET me == c.proc[c.id]
        entries == c.reg.tm_instances
        token(j) == c.reg.tms[entries[j].id].token
        holding == {j \in (me.pos + 1)..Len(entries) : token(j) # None}
        stop == IF holding = {} THEN Len(entries)
                ELSE CHOOSE j \in holding : \A k \in holding : j <= k
        visits == [i \in 1..(stop - me.pos) |->
                      REv("visit", entries[me.pos + i].id, token(me.pos + i))]
        c1 == [c EXCEPT !.proc[c.id].pos = stop,
                        !.proc[c.id].hist = @ \o visits]
    IN  IF Len(entries) # me.size THEN RComplete(c, "RuntimeError", None)
        ELSE IF holding = {} THEN tm_close_end(c1)
        ELSE rlog([c1 EXCEPT !.proc[c.id].pc = "logout_wait",
                             !.proc[c.id].cur = entries[stop].id],
                  "logout", entries[stop].id, token(stop))

tm_close_all(c, nested) ==
    tm_close_loop([c EXCEPT !.proc[c.id].nested = nested,
                            !.proc[c.id].pos = 0,
                            !.proc[c.id].size = Len(c.reg.tm_instances),
                            !.proc[c.id].snap = Ids(c.reg.tm_instances)])

\* logout after logout_get, answered or failed: the token is cleared; the
\* loop goes on.
close_logout_return(c) ==
    tm_close_loop([c EXCEPT !.reg.tms[c.proc[c.id].cur].token = None,
                            !.proc[c.id].cur = None])

\* api_client.close() has returned: the transport is closed; the loop goes on.
close_return(c) ==
    facade_close_loop([c EXCEPT !.reg.facades[c.proc[c.id].cur].closed = TRUE,
                                !.proc[c.id].cur = None])

\* ---------------------------------------------------- registries: actions
RApply(c) ==
    /\ c.reg.auths <= MaxObjects
    /\ Len(c.reg.facades) <= MaxObjects
    /\ Len(c.reg.tms) <= MaxObjects
    /\ reg' = c.reg
    /\ proc' = c.proc
    /\ UNCHANGED <<tm, fac, srv, task, started, last, cohort, calc>>

RBegin(p, name) ==
    [RCtx(p) EXCEPT !.proc[p].op = name, !.reg.started = @ + 1]

RIdle(p) == proc[p].pc = "idle" /\ p = reg.started + 1

Call_get_instance(p, key) ==
    /\ RIdle(p)
    /\ LET c == get_instance(RBegin(p, "get_instance"), key)
           id == c.proc[p].cur
       IN  RApply(RComplete(Got(c, "facade", key, id), "instance", id))

Call_tm_get_instance(p, key) ==
    /\ RIdle(p)
    /\ LET c == tm_get_instance(RBegin(p, "tm_get_instance"), key, None)
           id == c.proc[p].cur
       IN  RApply(RComplete(Got(c, "tm", key, id), "instance", id))

\* A business call (execute_with_retry) on facade f by a holder of it.
Call_facade_execute(p, f) ==
    /\ RIdle(p)
    /\ f \in DOMAIN reg.facades
    /\ RApply(facade_ensure_token_manager(RBegin(p, "execute_with_retry"), f))

AuthReturn(p, outcome) ==
    /\ proc[p].pc = "auth_wait"
    /\ RApply(auth_return(RCtx(p), outcome))

Call_close_all(p) ==
    /\ RIdle(p)
    /\ RApply(tm_close_all(RBegin(p, "close_all"), TRUE))

Call_tm_close_all(p) ==
    /\ RIdle(p)
    /\ RApply(tm_close_all(RBegin(p, "tm_close_all"), FALSE))

CloseLogoutReturn(p) ==
    /\ proc[p].pc = "logout_wait"
    /\ RApply(close_logout_return(RCtx(p)))

CloseReturn(p) ==
    /\ proc[p].pc = "close_wait"
    /\ RApply(close_return(RCtx(p)))

NextRegistry ==
    \/ \E p \in Procs, k \in Keys : Call_get_instance(p, k)
    \/ \E p \in Procs, k \in Keys : Call_tm_get_instance(p, k)
    \/ \E p \in Procs, f \in 1..MaxObjects : Call_facade_execute(p, f)
    \/ \E p \in Procs, o \in {"ok", "error"} : AuthReturn(p, o)
    \/ \E p \in Procs : Call_close_all(p)
    \/ \E p \in Procs : Call_tm_close_all(p)
    \/ \E p \in Procs : CloseLogoutReturn(p)
    \/ \E p \in Procs : CloseReturn(p)

SpecRegistry == Init /\ [][NextRegistry]_vars

\* ------------------------------------------------------------- progress
\* Every call the program offers, by callers that may be cancelled during a
\* fetch; a behaviour uses the calls of one TokenManager and its facade, or
\* the calls on the registries.
NextTokenCalls ==
    \/ \E t \in Tasks : Call_execute_with_retry(t)
    \/ \E t \in Tasks : Call_ensure_token(t)
    \/ \E t \in Tasks, e \in Errors : Call_refresh_token_if_401(t, e)
    \/ \E t \in Tasks : Call_logout(t)
    \/ \E t \in Tasks : EnsureLockAcquired(t)
    \/ \E t \in Tasks : RefreshLockAcquired(t)
    \/ \E t \in Tasks : RefreshWaitReturn(t)
    \/ \E t \in Tasks, o \in {"ok", "401", "error"} : EnsureFetchReturn(t, o)
    \/ \E t \in Tasks, o \in {"ok", "401", "error"} : RefreshFetchReturn(t, o)
    \/ \E t \in Tasks : \E o \in ApiOutcomes(t, OtherErrors) : ApiCallReturn(t, o)
    \/ \E t \in Tasks, o \in {"ok", "error"} : LogoutReturn(t, o)
    \/ \E t \in Tasks : Cancel(t)

NextLive ==
    \/ reg.started = 0 /\ NextTokenCalls
    \/ started = 0 /\ NextRegistry

\* The event loop runs every coroutine that is ready (it was handed the
\* lock, or the event it waits for was set), and every request that was
\* sent is answered or fails.  Nothing obliges a caller to begin a call or
\* to cancel one.
FairTasks ==
    \A t \in Tasks :
       /\ WF_vars(EnsureLockAcquired(t))
       /\ WF_vars(RefreshLockAcquired(t))
       /\ WF_vars(RefreshWaitReturn(t))
       /\ WF_vars(\E o \in {"ok", "401", "error"} : EnsureFetchReturn(t, o))
       /\ WF_vars(\E o \in {"ok", "401", "error"} : RefreshFetchReturn(t, o))
       /\ WF_vars(\E o \in ApiOutcomes(t, OtherErrors) : ApiCallReturn(t, o))
       /\ WF_vars(\E o \in {"ok", "error"} : LogoutReturn(t, o))

FairProcs ==
    \A p \in Procs :
       /\ WF_vars(\E o \in {"ok", "error"} : AuthReturn(p, o))
       /\ WF_vars(CloseLogoutReturn(p))
       /\ WF_vars(CloseReturn(p))

SpecLive == Init /\ [][NextLive]_vars /\ FairTasks /\ FairProcs

\* ------------------------------------------------------------ credentials
\* ApiCredentials(host, login, password).key_id: f"{self.host}:{self.login}"
key_id(host, login) == host \o <<":">> \o login

ApiCredentials(host, login) ==
    [host |-> host, login |-> login, key_id |-> key_id(host, login)]

\* Two ApiCredentials objects are made, one after the other.
MakeCredentials(host, login) ==
    /\ calc' = [fn |-> "key_id",
                cur |-> ApiCredentials(host, login),
                prev |-> IF calc.fn = "key_id" THEN calc.cur
                         ELSE ApiCredentials(host, login)]
    /\ UNCHANGED <<tm, fac, srv, task, started, last, cohort, reg, proc>>

NextKeyId == \E host \in Strings, login \in Strings : MakeCredentials(host, login)

SpecKeyId == Init /\ [][NextKeyId]_vars

\* ---------------------------------------------------------- list methods
\* Python values: None, a str, a list of str.
PyNone == [py |-> "None"]
PyStr(v) == [py |-> "str", v |-> v]
PyList(v) == [py |-> "list", v |-> v]

\* bool(x): None, "" and [] are false.
truthy(x) ==
    /\ x # PyNone
    /\ x.py = "str" => x.v # ""
    /\ x.py = "list" => Len(x.v) > 0

\* Values of the str filters (ids, nums, codes, ...), the empty string among
\* them, and of the ProductType enum.
FilterValues == {"", "x"}
TypeValues == {"DISH"}

\* A list filter argument: None or a list of at most MaxFilterLen values.
Lists(values) ==
    {PyNone} \cup {PyList(l) : l \in UNION {[1..n -> values] : n \in 0..MaxFilterLen}}

\* `lst is not None and len(lst) > 1`
longer_than_one(lst) == lst # PyNone /\ Len(lst.v) > 1

\* `ids[0] if ids and len(ids) == 1 else None`
only_element(lst) ==
    IF truthy(lst) /\ Len(lst.v) = 1 THEN PyStr(lst.v[1]) ELSE PyNone

\* `parent_ids is not None and len(parent_ids) == 0`
is_empty_list(lst) == lst # PyNone /\ Len(lst.v) = 0

\* `[id] if id else None`
single_or_none(id) == IF truthy(id) THEN PyList(<<id.v>>) ELSE PyNone

\* `[] if parent_ids_empty else ([parent_id] if parent_id else None)`
empty_or_single(parent_ids_empty, parent_id) ==
    IF parent_ids_empty THEN PyList(<<>>) ELSE single_or_none(parent_id)

\* The request a method sends: v2_..._list_get or v2_..._list_post with its
\* keyword arguments (include_deleted and revision_from, passed through
\* unchanged by both, are left out).
get_products_via_get(ids, nums, types, category_ids, parent_ids) ==
    [verb |-> "GET",
     params |-> [ids |-> ids, nums |-> nums, types |-> types,
                 category_ids |-> category_ids, parent_ids |-> parent_ids]]

get_products_via_post(id, num, product_type, category_id, parent_id, parent_ids_empty) ==
    [verb |-> "POST",
     params |-> [ids |-> single_or_none(id), nums |-> single_or_none(num),
                 types |-> single_or_none(product_type),
                 category_ids |-> single_or_none(category_id),
                 parent_ids |-> empty_or_single(parent_ids_empty, parent_id)]]

products_use_get_ids_only(a) == longer_than_one(a.ids)
products_use_get(a) ==
    \/ \E lst \in {a.ids, a.nums, a.category_ids, a.parent_ids} : longer_than_one(lst)
    \/ longer_than_one(a.types)

get_products_list(a) ==
    IF products_use_get(a)
    THEN get_products_via_get(a.ids, a.nums, a.types, a.category_ids, a.parent_ids)
    ELSE get_products_via_post(only_element(a.ids), only_element(a.nums),
                               only_element(a.types), only_element(a.category_ids),
                               only_element(a.parent_ids), is_empty_list(a.parent_ids))

get_product_groups_via_get(ids, parent_ids, nums, codes) ==
    [verb |-> "GET",
     params |-> [ids |-> ids, parent_ids |-> parent_ids, nums |-> nums, codes |-> codes]]

get_product_groups_via_post(id, parent_id, parent_ids_empty, num, code) ==
    [verb |-> "POST",
     params |-> [ids |-> single_or_none(id),
                 parent_ids |-> empty_or_single(parent_ids_empty, parent_id),
                 nums |-> single_or_none(num), codes |-> single_or_none(code)]]

get_product_groups_list(a) ==
    IF \E lst \in {a.ids, a.parent_ids, a.nums, a.codes} : longer_than_one(lst)
    THEN get_product_groups_via_get(a.ids, a.parent_ids, a.nums, a.codes)
    ELSE get_product_groups_via_post(only_element(a.ids), only_element(a.parent_ids),
                                     is_empty_list(a.parent_ids),
                                     only_element(a.nums), only_element(a.codes))

get_user_categories_via_get(ids) == [verb |-> "GET", params |-> [ids |-> ids]]

get_user_categories_via_post(id) == [verb |-> "POST", params |-> [ids |-> single_or_none(id)]]

get_user_categories_list(a) ==
    IF longer_than_one(a.ids)
    THEN get_user_categories_via_get(a.ids)
    ELSE get_user_categories_via_post(only_element(a.ids))

\* The list filters a method takes.
ProductsArgs ==
    [ids : Lists(FilterValues), nums : Lists(FilterValues),
     types : Lists(TypeValues), category_ids : Lists(FilterValues),
     parent_ids : Lists(FilterValues)]

ProductGroupsArgs ==
    [ids : Lists(FilterValues), parent_ids : Lists(FilterValues),
     nums : Lists(FilterValues), codes : Lists(FilterValues)]

UserCategoriesArgs == [ids : Lists(FilterValues)]

\* A call about to be made: a method and its list filters.
ListCall(method, a) == [fn |-> "call", method |-> method, args |-> a]

InitLists ==
    /\ \/ \E a \in ProductsArgs : calc = ListCall("get_products_list", a)
       \/ \E a \in ProductGroupsArgs : calc = ListCall("get_product_groups_list", a)
       \/ \E a \in UserCategoriesArgs : calc = ListCall("get_user_categories_list", a)
    /\ reg = NewRegistries
    /\ proc = [p \in Procs |-> IdleProc]
    /\ tm = NewTokenManager
    /\ fac = [token_manager |-> FALSE]
    /\ srv = [valid |-> {}, auth_calls |-> 0, expired |-> 0]
    /\ task = [t \in Tasks |-> IdleTask]
    /\ started = 0
    /\ last = NoCall
    /\ cohort = NoCohort

Sent(request) ==
    /\ calc' = [fn |-> "sent", method |-> calc.method, args |-> calc.args,
                request |-> request]
    /\ UNCHANGED <<tm, fac, srv, task, started, last, cohort, reg, proc>>

Call_get_products_list ==
    /\ calc.fn = "call" /\ calc.method = "get_products_list"
    /\ Sent(get_products_list(calc.args))

Call_get_product_groups_list ==
    /\ calc.fn = "call" /\ calc.method = "get_product_groups_list"
    /\ Sent(get_product_groups_list(calc.args))

Call_get_user_categories_list ==
    /\ calc.fn = "call" /\ calc.method = "get_user_categories_list"
    /\ Sent(get_user_categories_list(calc.args))

NextLists ==
    \/ Call_get_products_list
    \/ Call_get_product_groups_list
    \/ Call_get_user_categories_list

SpecLists == InitLists /\ [][NextLists]_vars

\* ---------------------------------------------------------------------
\* The password: what the facade and the TokenManager keep of it.
\* ---------------------------------------------------------------------

\* hash_password: hashlib.sha1(password.encode("utf-8")).hexdigest(), as a
\* table of the digests of the strings of the model.
hash_password(password) ==
    CASE password = <<"a">> -> "86f7e437faa5a7fce15d1ddcb9eaeaea377667b8"
      [] password = <<":">> -> "05a79f06cf3f67f726dae68d18a2290f6c9a50c9"
      [] password = <<"a", "a">> -> "e0c9035898dd52fc65c41454cec9c4d2611bfb37"
      [] password = <<"a", ":">> -> "7daa84ad205672ff7f9595b511109c0ec9cd40b8"
      [] password = <<":", "a">> -> "a4839edbf020b8c1ac398fa119979fc5384f52d4"
      [] password = <<":", ":">> -> "f62e0ea6edbc4288ff84c8da24f410ecf986229d"
      [] password = <<"a", "a", "a">> -> "7e240de74fb1ed08fa08d38063f6a6a91462a815"
      [] password = <<"a", "a", ":">> -> "13f66860c4fcd1f153eef848096caf31d58db7ba"
      [] password = <<"a", ":", "a">> -> "98398f51aa78aaf6309be3d93ad27fb1c1b21cb6"
      [] password = <<"a", ":", ":">> -> "85aee69bab13fa23f304dd1714acb55bd317c561"
      [] password = <<":", "a", "a">> -> "851b73637c0830d4f54a9677284a82811d408407"
      [] password = <<":", "a", ":">> -> "243b2fb3c9771ccb356e3ce887b8ad9c0859b2e3"
      [] password = <<":", ":", "a">> -> "aab0bc2e46c566bab1f15bedbb74a9767db4af42"
      [] password = <<":", ":", ":">> -> "15856dc487f63392ad9343a5a7e4e0f5fb32b295"

\* The fields of the ApiCredentials dataclass (key_id is a property).
ApiCredentials_fields(host, login, password) ==
    [host |-> host, login |-> login, password |-> password]

\* IikoServerApiClientManager.__init__: the facade keeps the credentials
\* object it was given; it has no TokenManager yet.
facade_init(credentials) == [credentials |-> credentials]

\* TokenManager.__init__: login, the hash of the password, key_id.
TokenManager_init(login, password, key) ==
    [login |-> login, password_hash |-> hash_password(password), key_id |-> key,
     token |-> None, token_version |-> 0]

\* get_instance(credentials) for a new key: calc.given is the password the
\* caller passed (not part of the program's state), calc.facade the facade.
Call_facade_init(host, login, password) ==
    /\ calc.fn # "facade"
    /\ calc' = [fn |-> "facade", given |-> password,
                facade |-> facade_init(ApiCredentials_fields(host, login, password))]
    /\ UNCHANGED <<tm, fac, srv, task, started, last, cohort, reg, proc>>

\* _ensure_token_manager with self._token_manager None: the TokenManager is
\* made from the fields of self._credentials and kept by the facade.
Call_ensure_token_manager ==
    /\ calc.fn = "facade"
    /\ LET c == calc.facade.credentials
       IN calc' = [fn |-> "token_manager", given |-> calc.given,
                   facade |-> calc.facade,
                   token_manager |->
                      TokenManager_init(c.login, c.password,
                                        key_id(c.host, c.login))]
    /\ UNCHANGED <<tm, fac, srv, task, started, last, cohort, reg, proc>>

NextPassword ==
    \/ \E host \in Strings, login \in Strings, password \in Strings :
          Call_facade_init(host, login, password)
    \/ Call_ensure_token_manager

SpecPassword == Init /\ [][NextPassword]_vars

\* ------------------------------------------------------------------ claims
Fetching == {t \in Tasks : task[t].pc \in {"ensure_fetch", "refresh_fetch"}}

Answers(h) == SelectSeq(h, LAMBDA e : e.ev = "answer")

\* C1: of N >= 2 invocations of refresh_token_if_401 with a 401 error on one
\* TokenManager that run concurrently (all started before any of them
\* finished, the first on a TokenManager at rest), exactly one sends an
\* auth_get request, never more than one at any moment, and when that
\* request is answered with a token every one of the N returns True and
\* none raises.
C1_ConcurrentRefreshOneAuth ==
    /\ cohort.auths <= 1
    /\ (Cardinality(cohort.members) >= 2 /\ cohort.members = cohort.done)
          => /\ cohort.auths = 1
             /\ (cohort.auth_ok => cohort.rets = {"True"})

\* Three concurrent invocations have all finished after a successful
\* auth_get.
C1_Witness ==
    /\ Cardinality(cohort.members) >= 3
    /\ cohort.members = cohort.done
    /\ cohort.auth_ok

\* C3: in every reachable state at most one auth_get request of the
\* TokenManager is in flight, whatever the interleaving of ensure_token,
\* refresh_token_if_401, logout and execute_with_retry calls.
C3_AtMostOneAuthInFlight == Cardinality(Fetching) <= 1

\* An auth_get is in flight while another task queues for the lock and a
\* third waits on the refresh event.
C3_Witness ==
    /\ Cardinality(Fetching) = 1
    /\ tm.lock_waiters # <<>>
    /\ tm.event_waiters # {}

\* C2: an execute_with_retry call whose operation was sent while the
\* TokenManager held a token, under token version v, and failed with 401
\* does not send an auth_get of its own once another call's refresh has
\* completed since (the version has advanced past v): it detects the
\* completed refresh.
C2_NoFetchAfterCompletedRefresh ==
    \A t \in Tasks :
        (/\ task[t].op = "execute_with_retry"
         /\ task[t].pc = "refresh_fetch"
         /\ task[t].had_token)
        => tm.token_version = task[t].sent_version

\* C4: a caller of refresh_token_if_401 that waited on the refresh event
\* finds, when it is released and returns True, a token in the TokenManager
\* that is bound into the transport's api_key and is no older than the
\* version it saw when it began to wait.
C4_WaiterSeesFreshToken ==
    [][\A t \in Tasks :
        (task[t].pc = "refresh_wait" /\ task'[t].pc # "refresh_wait")
        => /\ tm'.token # None
           /\ tm'.api_key = tm'.token
           /\ tm'.token_version >= task[t].version_before]_vars

\* C5: while the server expires the current token once and the
\* authentication endpoint keeps accepting the credentials, every
\* execute_with_retry call returns the operation's result; none raises a
\* 401 or an auth exception to its caller.
C5_ExpiryTransparent ==
    last.op = "execute_with_retry" => last.ret.kind = "return"

\* C9: at the first invocation of the operation in an execute_with_retry
\* call the TokenManager holds a token.
C9_TokenBeforeFirstCall ==
    \A t \in Tasks :
        (task[t].pc = "api_call" /\ Count(task[t].hist, "call") = 1)
        => task[t].had_token

Indices(h, name) == {i \in DOMAIN h : h[i].ev = name}

\* C6: an execute_with_retry call whose operation answers an authorization
\* error (UnauthorizedException or status 401) to its first invocation and
\* succeeds on its second has invoked the operation exactly twice, has
\* called refresh_token_if_401 exactly once, between the two invocations,
\* and returns the second invocation's result.
C6_RetryOnceAfter401 ==
    (/\ last.op = "execute_with_retry"
     /\ Answers(last.hist) = <<Answer(Status401), Answer(Ok)>>)
    => /\ Count(last.hist, "call") = 2
       /\ Count(last.hist, "refresh") = 1
       /\ \E a, b \in Indices(last.hist, "call") :
             \E r \in Indices(last.hist, "refresh") : a < r /\ r < b
       /\ last.ret = [kind |-> "return", val |-> "result2", exc |-> NoExc]

\* An execute_with_retry call returns after a 401 and a success.
C6_Witness ==
    /\ last.op = "execute_with_retry"
    /\ Answers(last.hist) = <<Answer(Status401), Answer(Ok)>>
    /\ last.ret.kind = "return"

\* C7: whatever the operation and the authentication endpoint answer, one
\* execute_with_retry call invokes the operation at most twice and calls
\* refresh_token_if_401 at most once; when the re-invocation after the
\* refresh answers an authorization error, the call raises exactly that
\* error.
C7_AtMostOneRetry ==
    /\ \A t \in Tasks :
          task[t].op = "execute_with_retry"
          => Count(task[t].hist, "call") <= 2 /\ Count(task[t].hist, "refresh") <= 1
    /\ last.op = "execute_with_retry"
          => /\ Count(last.hist, "call") <= 2 /\ Count(last.hist, "refresh") <= 1
             /\ (Len(Answers(last.hist)) = 2 /\ Answers(last.hist)[2].exc \in AuthErrors)
                   => last.ret = [kind |-> "raise", val |-> "none",
                                  exc |-> Answers(last.hist)[2].exc]

\* An execute_with_retry call ends on a second authorization error.
C7_Witness ==
    /\ last.op = "execute_with_retry"
    /\ Len(Answers(last.hist)) = 2
    /\ Answers(last.hist)[1].exc = Status401
    /\ last.ret.exc \in AuthErrors

\* The call's record after the step, whether the call went on or completed.
HistAfter(t) == IF task'[t].pc = "done" THEN last'.hist ELSE task'[t].hist

Running(t) == IF task'[t].pc = "done" THEN last'.op ELSE task'[t].op

\* C10: an ensure_token call whose auth_get is answered with a token has
\* sent exactly one auth_get, stores the session key the server just
\* created, binds it into the api_key and raises the version by 1; an
\* ensure_token step that finds a token present completes the call with no
\* auth_get sent and the token, the version, the api_key and the server
\* unchanged.
C10_EnsureTokenFetchesOnce ==
    [][\A t \in Tasks :
        (task'[t] # task[t] /\ Running(t) = "ensure_token")
        => /\ (task[t].pc = "ensure_fetch" /\ last'.ret.kind = "return")
                => /\ Count(last'.hist, "auth") = 1
                   /\ tm'.token \in srv'.valid \ srv.valid
                   /\ tm'.api_key = tm'.token
                   /\ tm'.token_version = tm.token_version + 1
           /\ (task[t].pc \in {"idle", "ensure_lock"} /\ tm.token # None)
                => /\ task'[t].pc = "done"
                   /\ last'.ret = [kind |-> "return", val |-> "None", exc |-> NoExc]
                   /\ last'.hist = <<>>
                   /\ srv' = srv
                   /\ tm'.token = tm.token
                   /\ tm'.api_key = tm.api_key
                   /\ tm'.token_version = tm.token_version]_vars

\* After one auth_get in all, answered to the first caller, a later
\* ensure_token call returns with the token present and nothing sent.
C10_Witness ==
    /\ last.op = "ensure_token" /\ last.hist = <<>>
    /\ started = 2 /\ task[1].pc = "done"
    /\ srv.auth_calls = 1
    /\ tm.token = 1 /\ tm.api_key = 1 /\ tm.token_version = 1

C16_LogoutClearsToken ==
    [][\A t \in Tasks :
        (task'[t] # task[t] /\ Running(t) = "logout")
        => /\ (task[t].pc = "idle" /\ tm.token # None)
                => /\ task'[t].pc = "logout_wait"
                   /\ task'[t].header = tm.token
                   /\ Count(task'[t].hist, "logout") = 1
           /\ task[t].pc = "logout_wait"
                => /\ task'[t].pc = "done"
                   /\ last'.ret = [kind |-> "return", val |-> "None", exc |-> NoExc]
                   /\ Count(last'.hist, "logout") = 1
                   /\ tm'.token = None
                   /\ tm'.api_key = None]_vars

\* A logout call whose logout_get failed has returned.
C16_Witness ==
    /\ last.op = "logout"
    /\ Count(last.hist, "logout_failed") = 1
    /\ last.ret.kind = "return"
    /\ tm.token = None /\ tm.api_key = None

\* C17: a logout call that finds no token completes at once returning None,
\* sends no logout_get, and leaves the TokenManager (token, version,
\* refresh event, api_key) and the server as they were.
C17_LogoutWithoutTokenNoOp ==
    [][\A t \in Tasks :
        (/\ task'[t] # task[t] /\ Running(t) = "logout"
         /\ task[t].pc = "idle" /\ tm.token = None)
        => /\ task'[t].pc = "done"
           /\ last'.ret = [kind |-> "return", val |-> "None", exc |-> NoExc]
           /\ last'.hist = <<>>
           /\ tm' = tm
           /\ srv' = srv]_vars

\* A logout call has returned without a request, on a TokenManager that had
\* a token before (its version is past 0).
C17_Witness ==
    /\ last.op = "logout" /\ last.hist = <<>>
    /\ tm.token = None /\ tm.token_version >= 1

\* C18: when the auth_get of ensure_token or of refresh_token_if_401 fails,
\* the step that handles the failure leaves the token absent, the api_key
\* empty, the refresh event set and the version unchanged, and raises
\* IikoServerAuthException; and an ensure_token or refresh_token_if_401
\* (401) call begun on a TokenManager at rest without a token sends an
\* auth_get.
C18_FailedFetchResets ==
    [][\A t \in Tasks :
        /\ (/\ task[t].pc \in {"ensure_fetch", "refresh_fetch"}
            /\ task'[t] # task[t]
            /\ Count(HistAfter(t), "auth_failed") = 1)
           => /\ task'[t].pc = "done"
              /\ last'.ret.kind = "raise"
              /\ last'.ret.exc.cls = "IikoServerAuthException"
              /\ tm'.token = None
              /\ tm'.api_key = None
              /\ tm'.refresh_event
              /\ tm'.token_version = tm.token_version
        /\ (/\ task[t].pc = "idle" /\ tm.token = None /\ at_rest
            /\ \/ Call_ensure_token(t)
               \/ \E e \in AuthErrors : Call_refresh_token_if_401(t, e))
           => /\ task'[t].pc \in {"ensure_fetch", "refresh_fetch"}
              /\ srv'.auth_calls = srv.auth_calls + 1]_vars

\* A refresh_token_if_401 call has raised after its auth_get failed, on a
\* TokenManager that had a token before.
C18_Witness ==
    /\ last.op = "refresh_token_if_401"
    /\ Count(last.hist, "auth_failed") = 1
    /\ last.ret.exc.cls = "IikoServerAuthException"
    /\ tm.token = None /\ tm.token_version >= 1

\* C19: an execute_with_retry call whose operation answered a 401 and whose
\* refresh sent an auth_get that failed has invoked the operation exactly
\* once and raises the IikoServerAuthException of the failed refresh.
C19_FailedRefreshPropagates ==
    /\ \A t \in Tasks :
          task[t].op = "execute_with_retry" => Count(task[t].hist, "auth_failed") = 0
    /\ (/\ last.op = "execute_with_retry"
        /\ Count(last.hist, "refresh") = 1
        /\ Count(last.hist, "auth_failed") = 1)
       => /\ Count(last.hist, "call") = 1
          /\ last.ret.kind = "raise"
          /\ last.ret.exc.cls = "IikoServerAuthException"
          /\ last.ret.exc.orig \in {"401", "error"}

\* An execute_with_retry call has raised the failure of its refresh.
C19_Witness ==
    /\ last.op = "execute_with_retry"
    /\ Count(last.hist, "refresh") = 1
    /\ Count(last.hist, "auth_failed") = 1
    /\ last.ret.kind = "raise"

\* C20: a refresh_token_if_401 call given an error that is no
\* UnauthorizedException and has no status 401 completes at once (no wait
\* on the event or the lock) returning False, sends no request, and leaves
\* the TokenManager (token, version, refresh event, api_key) and the
\* server as they were.
C20_Non401ReturnsFalse ==
    [][\A t \in Tasks : \A e \in OtherErrors :
        Call_refresh_token_if_401(t, e)
        => /\ task'[t].pc = "done"
           /\ last'.ret = [kind |-> "return", val |-> "False", exc |-> NoExc]
           /\ Count(last'.hist, "auth") = 0
           /\ tm' = tm
           /\ srv' = srv]_vars

\* A refresh_token_if_401 call has returned False while another task's
\* auth_get is in flight (event cleared, lock held).
C20_Witness ==
    /\ last.op = "refresh_token_if_401"
    /\ last.ret.val = "False"
    /\ ~tm.refresh_event /\ tm.locked # None

RegistryOf(name) == IF name = "facade" THEN reg.instances ELSE reg.tm_instances

\* C12: in either registry, get_instance calls with no close_all between
\* them return the same instance exactly when their key_ids are equal, and
\* the entry a call returned is still the registry's entry for its key.
C12_SameKeySameInstance ==
    /\ \A g \in reg.got : \A h \in reg.got :
          g.registry = h.registry => ((g.key = h.key) <=> (g.id = h.id))
    /\ \A g \in reg.got : Lookup(RegistryOf(g.registry), g.key) = g.id
    /\ \A name \in {"facade", "tm"} : \A i \in DOMAIN RegistryOf(name) :
          \A j \in DOMAIN RegistryOf(name) :
             RegistryOf(name)[i].key = RegistryOf(name)[j].key => i = j

C12_Witness ==
    \E g \in reg.got : \E h \in reg.got : \E d \in reg.got :
       /\ g.registry = "facade" /\ h.registry = "facade" /\ d.registry = "facade"
       /\ g.by # h.by /\ g.key = h.key /\ g.id = h.id
       /\ d.key # g.key /\ d.id # g.id


\* C13: when IikoServerApiClientManager.close_all returns, both registries
\* are empty; and the TokenManager that a registered facade binds at its
\* first use has version 0 and no token.
C13_CloseAllResets ==
    [][/\ (reg'.last.op = "close_all" /\ reg'.last.ret = "None")
            => (reg'.instances = <<>> /\ reg'.tm_instances = <<>>)
       /\ \A f \in DOMAIN reg.facades :
            (/\ reg.facades[f].token_manager = None
             /\ reg'.facades[f].token_manager # None
             /\ Lookup(reg.instances, reg.facades[f].key) = f)
            => /\ reg.tms'[reg'.facades[f].token_manager].token_version = 0
               /\ reg.tms'[reg'.facades[f].token_manager].token = None]_vars

\* A close_all call sends a request in this step: api_client.close() of a
\* facade, logout_get of a TokenManager.
IssuesClose(p) ==
    /\ proc'[p].pc = "close_wait"
    /\ (proc[p].pc # "close_wait" \/ proc'[p].pos # proc[p].pos)

IssuesLogout(p) ==
    /\ proc'[p].pc = "logout_wait"
    /\ (proc[p].pc # "logout_wait" \/ proc'[p].pos # proc[p].pos)

\* C14: when IikoServerApiClientManager.close_all begins to close a facade's
\* transport, no TokenManager holds a token and no logout is in flight; and
\* no close_all sends logout_get over a transport that has been closed.
C14_LogoutBeforeClose ==
    [][\A p \in Procs :
        /\ IssuesClose(p) =>
              \A x \in DOMAIN reg'.tms :
                 /\ reg'.tms[x].token = None
                 /\ \A q \in Procs : ~(proc'[q].pc = "logout_wait" /\ proc'[q].cur = x)
        /\ IssuesLogout(p) =>
              ~TransportClosed([reg |-> reg'], proc'[p].cur)]_vars

RCount(h, name, x) == Cardinality({i \in DOMAIN h : h[i].ev = name /\ h[i].id = x})

\* C15: a finished TokenManager.close_all call has visited every
\* TokenManager that was registered when it began, has sent exactly one
\* logout_get for each of them that held a token and none for the others,
\* and leaves the registry empty.
C15_CloseAllLogsOutEach ==
    reg.last.op = "tm_close_all" =>
       /\ \A i \in DOMAIN reg.last.snap :
             /\ RCount(reg.last.hist, "visit", reg.last.snap[i]) = 1
             /\ \A j \in DOMAIN reg.last.hist :
                   (reg.last.hist[j].ev = "visit" /\ reg.last.hist[j].id = reg.last.snap[i])
                   => RCount(reg.last.hist, "logout", reg.last.snap[i])
                         = (IF reg.last.hist[j].token # None THEN 1 ELSE 0)
       /\ reg.tm_instances = <<>>

\* C21: in every step the TokenManager's version either stays as it is or
\* grows by exactly 1, and it grows exactly in the steps that install a
\* token (a successful fetch of ensure_token or refresh_token_if_401): not
\* on a failed fetch, a logout, a skipped or awaited refresh.
C21_VersionCountsAcquisitions ==
    [][IF tm'.token # None /\ tm'.token # tm.token
       THEN tm'.token_version = tm.token_version + 1
       ELSE tm'.token_version = tm.token_version]_vars

\* After a first fetch, a logout and a second fetch: version 2, and the
\* token is gone again (failed refresh or logout).
C21_Witness == tm.token_version = 2 /\ tm.token = None

\* C22: the step in which refresh_token_if_401 (called with a 401 error)
\* gets a token from its auth_get leaves a version greater than before the
\* step and than the one the call read at entry, the stored token equal to
\* the value the endpoint returned and different from the previous token,
\* and the api_key carrying that token; called directly, it returns True.
C22_SuccessfulRefresh ==
    [][\A t \in Tasks :
        (/\ task[t].pc = "refresh_fetch"
         /\ task'[t].pc # "refresh_fetch"
         /\ last'.ret.kind # "raise")
        => /\ task[t].op = "refresh_token_if_401"
                => (last'.ret.kind = "return" /\ last'.ret.val = "True")
           /\ tm'.token_version > tm.token_version
           /\ tm'.token_version > task[t].version_before
           /\ tm'.token = srv.auth_calls
           /\ tm'.token \in srv'.valid
           /\ tm'.token # tm.token
           /\ tm'.api_key = tm'.token]_vars

\* A direct refresh_token_if_401 call has fetched the second token.
C22_Witness ==
    /\ last.op = "refresh_token_if_401"
    /\ last.ret.val = "True"
    /\ Count(last.hist, "auth") = 1
    /\ tm.token_version = 2
    /\ tm.token = 2 /\ tm.api_key = 2

\* Task t sends a request of the business operation in this step.
SendsCall(t) ==
    /\ task'[t].pc = "api_call"
    /\ Count(task'[t].hist, "call") > Count(task[t].hist, "call")

\* C23: in every state the transport's api_key is the TokenManager's token
\* (empty when there is none), and every request of the business operation
\* is sent with the token of that moment as its header.
C23_HeaderInSync ==
    [][/\ tm'.api_key = tm'.token
       /\ \A t \in Tasks : SendsCall(t) => task'[t].header = tm'.token]_vars

\* C24: a step that changes the TokenManager's token, version or refresh
\* event is taken by a task that holds the TokenManager's lock before the
\* step or takes it in the step.
C24_MutationsUnderLock ==
    [][(\/ tm'.token # tm.token
        \/ tm'.token_version # tm.token_version
        \/ tm'.refresh_event # tm.refresh_event)
       => \E t \in Tasks :
             /\ task'[t] # task[t]
             /\ (tm.locked = t \/ tm'.locked = t)]_vars

\* C25: right after a caller was cancelled during its fetch, the refresh
\* event is set, the cancelled task does not hold the lock, and the
\* transport's api_key is the stored token (empty when there is none).
C25_CancelLeavesConsistent ==
    last.ret.exc = CancelledError =>
       /\ tm.refresh_event
       /\ \A t \in Tasks : task[t].pc = "done" => tm.locked # t
       /\ tm.api_key = tm.token

\* C26: when the auth_get of a fetch fails, with a 401 or with any other
\* error, the same step raises to the caller an IikoServerAuthException
\* carrying that original error (so the two failures differ), and no other
\* auth_get is sent; a direct ensure_token or refresh_token_if_401 call
\* has then sent exactly one.
C26_FetchFailsOnce ==
    [][\A t \in Tasks : \A o \in {"401", "error"} :
        (EnsureFetchReturn(t, o) \/ RefreshFetchReturn(t, o))
        => /\ last'.ret.kind = "raise"
           /\ last'.ret.exc = IikoServerAuthException(o)
           /\ IikoServerAuthException(o).orig = o
           /\ srv'.auth_calls = srv.auth_calls
           /\ Count(last'.hist, "auth") = Count(task[t].hist, "auth")
           /\ last'.op \in {"ensure_token", "refresh_token_if_401"}
                 => Count(last'.hist, "auth") = 1]_vars

C26_Witness ==
    /\ last.op = "ensure_token"
    /\ last.ret.exc = IikoServerAuthException("401")
    /\ Count(last.hist, "auth") = 1
    /\ srv.auth_calls = 2

\* C27: the first execute_with_retry call on a facade, made while there is
\* no token, goes into ensure_token's fetch before it invokes the
\* operation; when the endpoint answers that auth_get with 401, the call
\* raises IikoServerAuthException (original error 401) in the same step,
\* without having invoked the operation.
C27_InvalidCredentialsOnFirstUse ==
    [][/\ (~fac.token_manager /\ fac'.token_manager /\ tm.token = None)
            => \E t \in Tasks : /\ task[t].pc = "idle"
                                /\ task'[t].pc \in {"ensure_lock", "ensure_fetch"}
                                /\ Count(task'[t].hist, "call") = 0
       /\ \A t \in Tasks :
            (task[t].op = "execute_with_retry" /\ EnsureFetchReturn(t, "401"))
            => /\ last'.op = "execute_with_retry"
               /\ last'.ret.kind = "raise"
               /\ last'.ret.exc = IikoServerAuthException("401")
               /\ Count(last'.hist, "call") = 0]_vars

C27_Witness ==
    /\ last.op = "execute_with_retry"
    /\ last.ret.exc = IikoServerAuthException("401")
    /\ Count(last.hist, "call") = 0
    /\ srv.auth_calls = 1 /\ started = 1

\* C28: key_id is host, ":" and login joined, and two credentials have the
\* same key_id exactly when they have the same host and the same login.
C28_KeyIdInjective ==
    calc.fn = "key_id" =>
       /\ calc.cur.key_id = calc.cur.host \o <<":">> \o calc.cur.login
       /\ (calc.cur.key_id = calc.prev.key_id)
             <=> (calc.cur.host = calc.prev.host /\ calc.cur.login = calc.prev.login)

\* The list filters of the call whose request is in calc.
FilterNames == DOMAIN calc.args

\* C29: a list method sends the GET request exactly when one of its filter
\* lists has two or more values, and the GET request then carries every
\* filter as it was given; otherwise it sends the POST request.
C29_GetIffSomeFilterLong ==
    calc.fn = "sent" =>
       /\ calc.request.verb \in {"GET", "POST"}
       /\ (calc.request.verb = "GET")
             <=> (\E f \in FilterNames : /\ calc.args[f] # PyNone
                                         /\ Len(calc.args[f].v) >= 2)
       /\ calc.request.verb = "GET" => calc.request.params = calc.args

\* Only the types filter has two values, the others have none, one, or are
\* not given: GET, with all of them passed through.
C29_Witness ==
    /\ calc.fn = "sent" /\ calc.method = "get_products_list"
    /\ calc.request.verb = "GET"
    /\ calc.args.types = PyList(<<"DISH", "DISH">>)
    /\ calc.args.ids = PyList(<<"x">>)
    /\ calc.args.nums = PyList(<<>>)
    /\ calc.args.category_ids = PyNone
    /\ calc.request.params.ids = PyList(<<"x">>)

\* C30: in the POST request (no filter has two or more values) every
\* filter given as a one-element list is sent as the list of exactly that
\* value, and every filter not given is sent as None.
C30_SingleValueSent ==
    (calc.fn = "sent" /\ calc.request.verb = "POST") =>
       \A f \in FilterNames :
          /\ (calc.args[f] # PyNone /\ Len(calc.args[f].v) = 1)
                => calc.request.params[f] = PyList(<<calc.args[f].v[1]>>)
          /\ calc.args[f] = PyNone => calc.request.params[f] = PyNone

\* C31: every filter given as an empty list is sent as an empty list (and
\* so differs from a filter that was not given, which is sent as None).
C31_EmptyListSent ==
    calc.fn = "sent" =>
       \A f \in FilterNames :
          calc.args[f] = PyList(<<>>) => calc.request.params[f] = PyList(<<>>)

\* C36: a GET request carries no empty filter list.
C36_GetHasNoEmptyList ==
    (calc.fn = "sent" /\ calc.request.verb = "GET") =>
       \A f \in FilterNames : calc.request.params[f] # PyList(<<>>)

\* C32: the raw password is not kept: the TokenManager holds the hash of
\* the password given, equal passwords have equal hashes and different
\* passwords different hashes, and no object of the program holds the
\* password itself.
C32_OnlyHashKept ==
    /\ \A p, q \in Strings : (p = q) <=> (hash_password(p) = hash_password(q))
    /\ calc.fn = "token_manager" =>
          calc.token_manager.password_hash = hash_password(calc.given)
    /\ calc.fn \in {"facade", "token_manager"} =>
          calc.facade.credentials.password # calc.given

\* C33: with callers that only call ensure_token on a TokenManager without a
\* token: at most one auth_get is in flight; once an auth_get has been
\* answered with a token no other auth_get is sent and the token stays (the
\* callers that queued on the lock find it and return); the version grows by
\* 1 in the step that installs the token and in no other step; and every
\* call that returns leaves a token present.
C33_ConcurrentEnsureOneAuth ==
    [][/\ Cardinality(Fetching') <= 1
       /\ tm'.token_version =
             tm.token_version + (IF tm.token = None /\ tm'.token # None THEN 1 ELSE 0)
       /\ tm.token # None =>
             /\ tm'.token = tm.token
             /\ srv'.auth_calls = srv.auth_calls
       /\ (last'.op = "ensure_token" /\ last'.ret.kind = "return") =>
             tm'.token # None]_vars

\* Three calls began while there was no token (version 1, one auth_get made
\* before): the first fetched, the second has returned after it, the third
\* owns the lock and has not run yet; one auth_get was sent for the three.
C33_Witness ==
    /\ task[1].pc = "done" /\ task[2].pc = "done"
    /\ task[3].pc = "ensure_lock" /\ tm.locked = 3
    /\ tm.token # None
    /\ tm.token_version = 2
    /\ srv.auth_calls = 2

\* C35: the callers of refresh_token_if_401 that waited on one refresh get
\* the outcome of the caller that performed it: when its auth_get was
\* answered with a token every one of them returns True, and when its
\* auth_get failed none of them returns True.
C35_WaitersShareOutcome ==
    (Cardinality(cohort.members) >= 2 /\ cohort.members = cohort.done
        /\ cohort.auths = 1)
       => /\ cohort.auth_ok => cohort.rets = {"True"}
          /\ ~cohort.auth_ok => "True" \notin cohort.rets

\* C37: once every registry call has settled (none is waiting for an
\* auth_get, a logout_get or a close), no TokenManager that close_all has
\* discarded from the registry holds a token: every session issued to it
\* was given to logout.
C37_NoSessionLeaked ==
    (\A p \in Procs : proc[p].pc \in {"idle", "done"}) =>
       \A x \in DOMAIN reg.tms :
          (\A i \in DOMAIN reg.tm_instances : reg.tm_instances[i].id # x)
             => reg.tms[x].token = None

\* C38: in every state the TokenManager a registered facade is bound to is
\* the one registered under the facade's key (or the facade is bound to
\* none), also after TokenManager.close_all was called on its own.
C38_FacadeBoundToRegistered ==
    \A i \in DOMAIN reg.instances :
       LET f == reg.facades[reg.instances[i].id]
       IN  f.token_manager # None =>
              Lookup(reg.tm_instances, f.key) = f.token_manager

\* C39: whenever the refresh event is set (no fetch is in flight), the
\* transport's api_key is the TokenManager's token, and empty when there is
\* no token, whatever calls of ensure_token, refresh_token_if_401, logout
\* and execute_with_retry have run or are running, and however they ended.
C39_KeyIsTokenAtRest ==
    tm.refresh_event => tm.api_key = tm.token

\* After two fetches (an ensure_token and a refresh) a token is held and
\* bound, the event is set, and a logout_get is in flight.
C39_Witness ==
    /\ tm.refresh_event
    /\ tm.token # None /\ tm.api_key = tm.token
    /\ tm.token_version = 2
    /\ \E t \in Tasks : task[t].pc = "logout_wait"

\* C40: in every state in which the refresh event is cleared, the lock is
\* held by a task that is in its fetch (its auth_get is in flight); so
\* whenever the lock is free the event is set, also after the fetch
\* succeeded, failed or was cancelled.
C40_EventClearedOnlyInFetch ==
    /\ ~tm.refresh_event =>
          /\ tm.locked \in Tasks
          /\ task[tm.locked].pc \in {"ensure_fetch", "refresh_fetch"}
    /\ tm.locked = None => tm.refresh_event

\* A fetching task was cancelled in the step just taken: the event is set
\* and the lock has gone to a task that was queued behind it.
C40_Witness ==
    /\ last.ret.exc = CancelledError
    /\ tm.refresh_event
    /\ tm.locked \in Tasks
    /\ task[tm.locked].pc \in {"ensure_lock", "refresh_lock"}

\* No call is in flight and the refresh event is set.
Settled ==
    /\ \A t \in Tasks : task[t].pc \in {"idle", "done"}
    /\ \A p \in Procs : proc[p].pc \in {"idle", "done"}
    /\ tm.refresh_event

\* C34: when every request that was sent is answered or fails, every call
\* of ensure_token, refresh_token_if_401, execute_with_retry and logout,
\* and every call on the registries (close_all included), returns or raises
\* in the end, and a cleared refresh event is set again: from every state
\* in which a call is in flight or the event is cleared, a state is reached
\* in which every call that began has ended and the event is set (a call
\* never goes back to idle, so each call in flight has ended by then).
C34_EveryCallEnds == (~Settled) ~> Settled

\* A refresh is fetching, a second one waits on the event, an ensure_token
\* waits on the lock.
C34_Witness ==
    /\ \E t \in Tasks : task[t].pc = "refresh_fetch"
    /\ \E t \in Tasks : task[t].pc = "refresh_wait"
    /\ \E t \in Tasks : task[t].pc = "ensure_lock"

====
